---- MODULE Spec2Model ----
(***************************************************************************)
(* RaG-On-Rust: the RAGSystem session of rag_gemini (utils/gemini.rs), the *)
(* process_query pipeline (lib.rs) and the OllamaMCP session of ollama_mcp *)
(* (utils/ollama.rs).                                                      *)
(*                                                                         *)
(* A Rust String is modelled as what it is: a sequence of UTF-8 bytes.     *)
(* len(), find() and the range of content[start..end] count bytes, and a   *)
(* range that does not fall on character boundaries panics.                *)
(***************************************************************************)
EXTENDS Integers, Sequences, FiniteSets, TLC

\* ------------------------------------------------------------------------
\* Option<T> and Result<T>

None == <<>>
Some(x) == <<x>>

Ok(v) == [tag |-> "Ok", val |-> v, msg |-> ""]
Err(m) == [tag |-> "Err", val |-> <<>>, msg |-> m]
\* A panic unwinds out of the call: it yields neither Ok nor Err.
Panic(m) == [tag |-> "Panic", val |-> <<>>, msg |-> m]

\* ------------------------------------------------------------------------
\* UTF-8 strings

\* The characters before and after the keyword match that retrieve returns.
Window == 300

Min(a, b) == IF a < b THEN a ELSE b

\* n copies of the byte sequence c.
RECURSIVE Rep(_, _)
Rep(c, n) ==
    IF n <= 0 THEN <<>>
    ELSE IF n = 1 THEN c
    ELSE Rep(c, n \div 2) \o Rep(c, n - (n \div 2))

IsContinuation(b) == b >= 128 /\ b < 192

CharWidth(b) ==
    IF b < 128 THEN 1 ELSE IF b < 224 THEN 2 ELSE IF b < 240 THEN 3 ELSE 4

\* Is every lead byte followed by exactly its continuation bytes?
IsUtf8(bytes) ==
    \A i \in 1..Len(bytes) :
        IF IsContinuation(bytes[i])
        THEN \E j \in 1..3 :
                /\ i - j >= 1
                /\ ~IsContinuation(bytes[i - j])
                /\ CharWidth(bytes[i - j]) > j
                /\ \A k \in 1..(j - 1) : IsContinuation(bytes[i - k])
        ELSE /\ bytes[i] < 248
             /\ i + CharWidth(bytes[i]) - 1 <= Len(bytes)
             /\ \A k \in 1..(CharWidth(bytes[i]) - 1) : IsContinuation(bytes[i + k])

\* str::is_char_boundary, on a 0-based byte offset.
IsCharBoundary(s, i) ==
    \/ i = 0
    \/ i = Len(s)
    \/ (i < Len(s) /\ ~IsContinuation(s[i + 1]))

\* The character that starts at the (1-based) byte i of s.
CharAt(s, i) == SubSeq(s, i, i + CharWidth(s[i]) - 1)

\* The start of the character before the one that starts at byte i > 1.
RECURSIVE PrevStart(_, _)
PrevStart(s, i) ==
    IF IsContinuation(s[i - 1]) /\ i > 2 THEN PrevStart(s, i - 1) ELSE i - 1

\* The Unicode White_Space characters: char::is_whitespace and the regex
\* class \s agree on them.
WhiteSpace ==
    { <<9>>, <<10>>, <<11>>, <<12>>, <<13>>, <<32>>,
      <<194, 133>>, <<194, 160>>, <<225, 154, 128>>,
      <<226, 128, 168>>, <<226, 128, 169>>, <<226, 128, 175>>,
      <<226, 129, 159>>, <<227, 128, 128>> }
      \cup { <<226, 128, b>> : b \in 128..138 }

IsWhitespace(c) == c \in WhiteSpace

\* char::to_lowercase on the characters the model's texts are written in:
\* ASCII, Latin-1 (two bytes, lower case is two bytes) and U+0130, capital I
\* with dot above (two bytes), whose lower case is "i" followed by U+0307
\* (three bytes).
LowerChar(c) ==
    IF Len(c) = 1 /\ c[1] >= 65 /\ c[1] <= 90 THEN <<c[1] + 32>>
    ELSE IF Len(c) = 2 /\ c[1] = 195 /\ c[2] >= 128 /\ c[2] <= 158 /\ c[2] # 151
         THEN <<195, c[2] + 32>>
    ELSE IF c = <<196, 176>> THEN <<105, 204, 135>>
    ELSE c

\* str::to_lowercase: every character replaced by its lower case, in order.
RECURSIVE LowerRange(_, _, _)
LowerRange(s, lo, hi) ==
    IF lo > hi THEN <<>>
    ELSE IF lo = hi
         THEN IF IsContinuation(s[lo]) THEN <<>> ELSE LowerChar(CharAt(s, lo))
    ELSE LET mid == (lo + hi) \div 2
         IN  LowerRange(s, lo, mid) \o LowerRange(s, mid + 1, hi)

to_lowercase(s) == LowerRange(s, 1, Len(s))

\* Does needle occur in hay at the 0-based byte offset p?
MatchAt(hay, needle, p) ==
    /\ p + Len(needle) <= Len(hay)
    /\ \A j \in 1..Len(needle) : hay[p + j] = needle[j]

\* The lowest offset in lo..hi at which needle occurs, if any.
RECURSIVE FindRange(_, _, _, _)
FindRange(hay, needle, lo, hi) ==
    IF lo > hi THEN None
    ELSE IF lo = hi THEN (IF MatchAt(hay, needle, lo) THEN Some(lo) ELSE None)
    ELSE LET mid == (lo + hi) \div 2
             left == FindRange(hay, needle, lo, mid)
         IN  IF left # None THEN left ELSE FindRange(hay, needle, mid + 1, hi)

\* Mutant of find: the last occurrence, as str::rfind.
RECURSIVE FindLastRange(_, _, _, _)
FindLastRange(hay, needle, lo, hi) ==
    IF lo > hi THEN None
    ELSE IF lo = hi THEN (IF MatchAt(hay, needle, lo) THEN Some(lo) ELSE None)
    ELSE LET mid == (lo + hi) \div 2
             right == FindLastRange(hay, needle, mid + 1, hi)
         IN  IF right # None THEN right ELSE FindLastRange(hay, needle, lo, mid)

find_Last(hay, needle) == FindLastRange(hay, needle, 0, Len(hay) - Len(needle))

\* str::find(&str): the byte offset of the first occurrence.
find(hay, needle) == FindRange(hay, needle, 0, Len(hay) - Len(needle))

\* str::split_whitespace: the maximal runs of non-whitespace characters.
RECURSIVE SplitFrom(_, _, _)
SplitFrom(s, i, cur) ==
    IF i > Len(s) THEN (IF cur = <<>> THEN <<>> ELSE <<cur>>)
    ELSE LET c == CharAt(s, i)
         IN  IF IsWhitespace(c)
             THEN (IF cur = <<>> THEN <<>> ELSE <<cur>>) \o SplitFrom(s, i + Len(c), <<>>)
             ELSE SplitFrom(s, i + Len(c), cur \o c)

split_whitespace(s) == SplitFrom(s, 1, <<>>)

saturating_sub(a, b) == IF a >= b THEN a - b ELSE 0

\* content[start..end] on a str: panics unless start <= end <= len and both
\* offsets are character boundaries.
Slice(s, start, end) ==
    IF start > end \/ end > Len(s)
    THEN Panic("slice index out of range")
    ELSE IF ~IsCharBoundary(s, start) \/ ~IsCharBoundary(s, end)
    THEN Panic("byte index is not a char boundary")
    ELSE Ok(SubSeq(s, start + 1, end))

\* ------------------------------------------------------------------------
\* RAGSystem::clean_text

\* Regex \s+ replaced by " ": the first character of a maximal whitespace
\* run becomes one space, the rest of the run disappears.
RECURSIVE ReplaceRange(_, _, _)
ReplaceRange(s, lo, hi) ==
    IF lo > hi THEN <<>>
    ELSE IF lo = hi
         THEN IF IsContinuation(s[lo]) THEN <<>>
              ELSE IF ~IsWhitespace(CharAt(s, lo)) THEN CharAt(s, lo)
              ELSE IF lo > 1 /\ IsWhitespace(CharAt(s, PrevStart(s, lo))) THEN <<>>
              ELSE <<32>>
    ELSE LET mid == (lo + hi) \div 2
         IN  ReplaceRange(s, lo, mid) \o ReplaceRange(s, mid + 1, hi)

replace_all(s) == ReplaceRange(s, 1, Len(s))

\* The first byte of the first non-whitespace character in lo..hi, if any.
RECURSIVE FirstNonWs(_, _, _)
FirstNonWs(s, lo, hi) ==
    IF lo > hi THEN None
    ELSE IF lo = hi
         THEN IF ~IsContinuation(s[lo]) /\ ~IsWhitespace(CharAt(s, lo))
              THEN Some(lo) ELSE None
    ELSE LET mid == (lo + hi) \div 2
             left == FirstNonWs(s, lo, mid)
         IN  IF left # None THEN left ELSE FirstNonWs(s, mid + 1, hi)

\* The first byte of the last non-whitespace character in lo..hi, if any.
RECURSIVE LastNonWs(_, _, _)
LastNonWs(s, lo, hi) ==
    IF lo > hi THEN None
    ELSE IF lo = hi
         THEN IF ~IsContinuation(s[lo]) /\ ~IsWhitespace(CharAt(s, lo))
              THEN Some(lo) ELSE None
    ELSE LET mid == (lo + hi) \div 2
             right == LastNonWs(s, mid + 1, hi)
         IN  IF right # None THEN right ELSE LastNonWs(s, lo, mid)

\* Mutant of trim: only the leading whitespace is removed, as str::trim_start.
trim_StartOnly(s) ==
    LET first == FirstNonWs(s, 1, Len(s))
    IN  IF first = None THEN <<>> ELSE SubSeq(s, first[1], Len(s))

\* str::trim: without the leading and the trailing whitespace characters.
trim(s) ==
    LET first == FirstNonWs(s, 1, Len(s))
        last == LastNonWs(s, 1, Len(s))
    IN  IF first = None THEN <<>>
        ELSE SubSeq(s, first[1], last[1] + CharWidth(s[last[1]]) - 1)

clean_text(content) == trim(replace_all(content))

\* ------------------------------------------------------------------------
\* The files of the host

\* The PDF files the model's callers name, each with the text that
\* pdf_extract::extract_text yields for it; None is a file that cannot be
\* opened or decoded.
Michael == <<77, 105, 99, 104, 97, 101, 108>>
Harditya == <<72, 97, 114, 100, 105, 116, 121, 97>>
IsAStudent == <<105, 115, 32, 97, 32, 115, 116, 117, 100, 101, 110, 116, 46>>
Apple == <<65, 112, 112, 108, 101>>
Banana == <<98, 97, 110, 97, 110, 97>>
EAcute == <<195, 169>>
DottedI == <<196, 176>>

PdfText ==
    [ p \in { "pdfs/rag.pdf", "pdfs/empty.pdf", "pdfs/blank.pdf", "pdfs/ete.pdf",
              "pdfs/missing.pdf", "pdfs/fruit.pdf", "pdfs/resume.pdf",
              "pdfs/dotted.pdf", "pdfs/istanbul.pdf" } |->
        CASE p = "pdfs/rag.pdf" ->
               \* "  Michael \n Harditya is a student.\n"
               Some(<<32, 32>> \o Michael \o <<32, 10, 32>> \o Harditya \o <<32>>
                    \o IsAStudent \o <<10>>)
          [] p = "pdfs/empty.pdf" -> Some(<<>>)
          [] p = "pdfs/blank.pdf" -> Some(<<32, 10, 9, 194, 160>>)
               \* "\u{c9}t\u{e9}  fini" (a text that starts with a two-byte character)
          [] p = "pdfs/ete.pdf" ->
               Some(<<195, 137, 116, 195, 169, 32, 32, 102, 105, 110, 105>>)
          [] p = "pdfs/missing.pdf" -> None
               \* "banana" x..x " Apple " y..y "\n banana"
          [] p = "pdfs/fruit.pdf" ->
               Some(Banana \o Rep(<<120>>, Window + 100) \o <<32>> \o Apple \o <<32>>
                    \o Rep(<<121>>, Window + 100) \o <<10, 32>> \o Banana)
               \* e-acute x 100, "a", e-acute x 100, "z"
          [] p = "pdfs/resume.pdf" ->
               Some(Rep(EAcute, Window \div 3) \o <<97>> \o Rep(EAcute, Window \div 3)
                    \o <<122>>)
               \* capital dotted I x 301, "z", "qq"
          [] p = "pdfs/dotted.pdf" ->
               Some(Rep(DottedI, Window + 1) \o <<122, 113, 113>>)
               \* capital dotted I x 400, "z"
          [] p = "pdfs/istanbul.pdf" ->
               Some(Rep(DottedI, Window + 100) \o <<122>>) ]

extract_text(pdf_path) ==
    IF PdfText[pdf_path] = None THEN Err("Failed to extract text from PDF")
    ELSE Ok(PdfText[pdf_path][1])

OutputPaths == {"bin/processed.txt", "bin/other.txt"}

\* Bytes that reach the file before a write that fails.
MaxPartial == 1

\* What the host does to one ingestion: whether File::create and write_all
\* succeed, and how many bytes a failing write leaves in the file.
IoOutcomes ==
    { [create |-> "ok", write |-> "ok", written |-> 0],
      [create |-> "err", write |-> "ok", written |-> 0] }
    \cup { [create |-> "ok", write |-> "err", written |-> n] : n \in 0..MaxPartial }
IoOk == [create |-> "ok", write |-> "ok", written |-> 0]

\* std::fs::read_to_string: the file's bytes, if the file exists and holds
\* valid UTF-8.
read_to_string(files, path) ==
    IF files[path] = None THEN Err("No such file or directory")
    ELSE IF ~IsUtf8(files[path][1]) THEN Err("stream did not contain valid UTF-8")
    ELSE Ok(files[path][1])

\* File::create followed by write_all(bytes): the file is truncated, then
\* written.  A failing write leaves the bytes that were written before it.
create_and_write(files, path, bytes, io) ==
    IF io.create = "err"
    THEN [disk |-> files, result |-> Err("Failed to create output file")]
    ELSE IF io.write = "err" /\ bytes # <<>>
    THEN [disk |-> [files EXCEPT ![path] =
                     Some(SubSeq(bytes, 1, Min(io.written, Len(bytes) - 1)))],
          result |-> Err("Failed to write extracted text to file")]
    ELSE [disk |-> [files EXCEPT ![path] = Some(bytes)], result |-> Ok(<<>>)]

\* ------------------------------------------------------------------------
\* RAGSystem (rag_gemini/src/utils/gemini.rs)

DocIds == DOMAIN PdfText \cup {"doc1"}

\* HashMap<String, String>: None for a key the map does not hold.
EmptyMap == [k \in DocIds |-> None]
insert(map, k, v) == [map EXCEPT ![k] = Some(v)]
IsEmptyMap(map) == \A k \in DocIds : map[k] = None

RAGSystem_new == [document_store |-> EmptyMap, processed_text_path |-> None]

add_document(self, doc_id, content) ==
    [self EXCEPT !.document_store = insert(self.document_store, doc_id, content)]

\* Mutant of add_pdf_document: an empty extraction is an error.
add_pdf_document_RejectEmpty(self, files, pdf_path, output_path, io) ==
    LET content == extract_text(pdf_path)
    IN  IF content.tag = "Err"
        THEN [self |-> self, disk |-> files, result |-> content]
        ELSE IF content.val = <<>>
        THEN [self |-> self, disk |-> files, result |-> Err("Extracted content is empty")]
        ELSE LET cleaned_content == clean_text(content.val)
                 file == create_and_write(files, output_path, cleaned_content, io)
             IN  IF file.result.tag = "Err"
                 THEN [self |-> self, disk |-> file.disk, result |-> file.result]
                 ELSE [self |-> add_document(
                                    [self EXCEPT !.processed_text_path = Some(output_path)],
                                    pdf_path, <<>>),
                       disk |-> file.disk,
                       result |-> Ok(<<>>)]

\* Mutant of add_pdf_document: the path is set by the first ingestion only.
add_pdf_document_KeepFirstPath(self, files, pdf_path, output_path, io) ==
    LET content == extract_text(pdf_path)
    IN  IF content.tag = "Err"
        THEN [self |-> self, disk |-> files, result |-> content]
        ELSE LET cleaned_content == clean_text(content.val)
                 file == create_and_write(files, output_path, cleaned_content, io)
             IN  IF file.result.tag = "Err"
                 THEN [self |-> self, disk |-> file.disk, result |-> file.result]
                 ELSE [self |-> add_document(
                                    IF self.processed_text_path = None
                                    THEN [self EXCEPT !.processed_text_path = Some(output_path)]
                                    ELSE self,
                                    pdf_path, <<>>),
                       disk |-> file.disk,
                       result |-> Ok(<<>>)]

add_pdf_document(self, files, pdf_path, output_path, io) ==
    LET content == extract_text(pdf_path)
    IN  IF content.tag = "Err"
        THEN [self |-> self, disk |-> files, result |-> content]
        ELSE LET cleaned_content == clean_text(content.val)
                 file == create_and_write(files, output_path, cleaned_content, io)
             IN  IF file.result.tag = "Err"
                 THEN [self |-> self, disk |-> file.disk, result |-> file.result]
                 ELSE [self |-> add_document(
                                    [self EXCEPT !.processed_text_path = Some(output_path)],
                                    pdf_path, <<>>),
                       disk |-> file.disk,
                       result |-> Ok(<<>>)]

\* Mutant of ScanKeywords: a query that matches nothing is an error.
RECURSIVE ScanKeywords_ErrWhenNone(_, _, _, _)
ScanKeywords_ErrWhenNone(content, content_lower, keywords, i) ==
    IF i > Len(keywords) THEN Err("No relevant content found")
    ELSE LET keyword == keywords[i]
             found == find(content_lower, keyword)
         IN  IF found # None
             THEN LET position == found[1]
                      start == saturating_sub(position, Window)
                      end == Min(position + Len(keyword) + Window, Len(content))
                  IN  Slice(content, start, end)
             ELSE ScanKeywords_ErrWhenNone(content, content_lower, keywords, i + 1)

\* The for loop of retrieve over keywords[i..]: the window around the first
\* match of the first keyword that occurs in content_lower.
RECURSIVE ScanKeywords(_, _, _, _)
ScanKeywords(content, content_lower, keywords, i) ==
    IF i > Len(keywords) THEN Ok(<<>>)
    ELSE LET keyword == keywords[i]
             found == find(content_lower, keyword)
         IN  IF found # None
             THEN LET position == found[1]
                      start == saturating_sub(position, Window)
                      end == Min(position + Len(keyword) + Window, Len(content))
                  IN  Slice(content, start, end)
             ELSE ScanKeywords(content, content_lower, keywords, i + 1)

\* retrieve once the processed-text path is known: read the file, search it.
search_processed_text(files, text_path, query) ==
    LET read == read_to_string(files, text_path)
    IN  IF read.tag = "Err" THEN Err("Failed to read processed file")
        ELSE LET content == read.val
             IN  IF content = <<>> THEN Ok(<<>>)
                 ELSE ScanKeywords(content, to_lowercase(content),
                                   split_whitespace(to_lowercase(query)), 1)

\* Mutant of retrieve: without a processed text there is nothing to find.
retrieve_EmptyWhenMissing(self, files, query) ==
    IF self.processed_text_path = None
    THEN Ok(<<>>)
    ELSE search_processed_text(files, self.processed_text_path[1], query)

retrieve(self, files, query) ==
    IF self.processed_text_path = None
    THEN Err("No processed text file available")
    ELSE search_processed_text(files, self.processed_text_path[1], query)

\* ------------------------------------------------------------------------
\* OllamaMCP (ollama_mcp/src/utils/ollama.rs)

\* What the Ollama backend does to one call: whether /extract-pdf and
\* /generate-embedding answer with the field the client reads.
NetOutcomes == [extract : {"ok", "err"}, embed : {"ok", "err"}]

OllamaMCP_new(ollama_api_url) ==
    [document_store |-> EmptyMap, processed_text_path |-> None,
     ollama_api_url |-> ollama_api_url]

generate_embedding(content, net) ==
    IF net.embed = "err"
    THEN Err("Failed to send request to Ollama API for embedding generation")
    ELSE Ok(<<>>)

extract_text_from_pdf(pdf_path, net) ==
    IF net.extract = "err" \/ PdfText[pdf_path] = None
    THEN Err("Failed to send request to Ollama API for PDF extraction")
    ELSE Ok(PdfText[pdf_path][1])

mcp_add_document(self, doc_id, content, net) ==
    LET embedding == generate_embedding(content, net)
    IN  IF embedding.tag = "Err"
        THEN [self |-> self,
              result |-> Err("Failed to generate embedding through ollama embedding model")]
        ELSE [self |-> [self EXCEPT !.document_store =
                                        insert(self.document_store, doc_id, content)],
              result |-> Ok(<<>>)]

mcp_add_pdf_document(self, files, pdf_path, output_path, io, net) ==
    LET extracted_text == extract_text_from_pdf(pdf_path, net)
    IN  IF extracted_text.tag = "Err"
        THEN [self |-> self, disk |-> files,
              result |-> Err("Failed to extract text from PDF")]
        ELSE LET file == create_and_write(files, output_path, extracted_text.val, io)
             IN  IF file.result.tag = "Err"
                 THEN [self |-> self, disk |-> file.disk, result |-> file.result]
                 ELSE LET added == mcp_add_document(
                                       [self EXCEPT !.processed_text_path = Some(output_path)],
                                       pdf_path, extracted_text.val, net)
                      IN  [self |-> added.self, disk |-> file.disk, result |-> added.result]

\* response is what /query answered: Err, or Ok with its "result" field.
mcp_retrieve(self, query, response) ==
    IF response.tag = "Err" THEN Err("Failed to query Ollama for relevant content")
    ELSE IF response.val = <<>> THEN Ok(<<>>)
    ELSE Ok(response.val)

\* ------------------------------------------------------------------------
\* process_query (rag_gemini/src/lib.rs)

ContextPrefix == <<67, 111, 110, 116, 101, 120, 116, 58, 32>>   \* "Context: "
QuestionPrefix ==                                               \* "\n\nQuestion: "
    <<10, 10, 81, 117, 101, 115, 116, 105, 111, 110, 58, 32>>

\* Mutant of chat_message: the prompt has the context shape even without context.
chat_message_AlwaysContext(context, query) ==
    ContextPrefix \o context \o QuestionPrefix \o query

\* The one message process_query sends to the chat backend.
chat_message(context, query) ==
    IF context = <<>> THEN query
    ELSE ContextPrefix \o context \o QuestionPrefix \o query

text_output_path == "bin/processed.txt"

\* ------------------------------------------------------------------------
\* State

Callers == {"c1", "c2"}

VARIABLES
    rag_system,   \* rag_gemini main.rs: the RAGSystem of the session
    ollama_mcp,   \* ollama_mcp main.rs: the OllamaMCP of the session
    calls,        \* the process_query calls: each caller's position and locals
    disk,         \* the output files: path -> Some(bytes), None if absent
    ret,          \* the last call made on a session and what it returned
    text,         \* clean_text: the text to clean
    cleaned       \* clean_text: what cleaning it once, then again, returned

vars == <<rag_system, ollama_mcp, calls, disk, ret, text, cleaned>>

Call(op, pdf_path, output_path, query, result) ==
    [op |-> op, pdf_path |-> pdf_path, output_path |-> output_path,
     query |-> query, result |-> result]

\* A process_query call that has not started.
Idle ==
    [pc |-> "idle", query |-> <<>>, pdf_path |-> "", rag_system |-> RAGSystem_new,
     context |-> None, sent |-> <<>>, response |-> None, result |-> Ok(<<>>)]

\* A panic ends the program: no call follows it.
Running == ret.result.tag # "Panic"

Init ==
    /\ rag_system = RAGSystem_new
    /\ ollama_mcp = OllamaMCP_new("https://api.ollama.com")
    /\ calls = [c \in Callers |-> Idle]
    /\ disk = [p \in OutputPaths |-> None]
    /\ ret = Call("new", "", "", <<>>, Ok(<<>>))
    /\ text = <<>>
    /\ cleaned = <<>>

\* ---- RAGSystem

AddDocument(doc_id, content) ==
    /\ Running
    /\ rag_system' = add_document(rag_system, doc_id, content)
    /\ ret' = Call("add_document", doc_id, "", <<>>, Ok(<<>>))
    /\ UNCHANGED <<ollama_mcp, calls, disk, text, cleaned>>

AddPdfDocument(pdf_path, output_path, io) ==
    /\ Running
    /\ LET call == add_pdf_document(rag_system, disk, pdf_path, output_path, io)
       IN  /\ rag_system' = call.self
           /\ disk' = call.disk
           /\ ret' = Call("add_pdf_document", pdf_path, output_path, <<>>, call.result)
    /\ UNCHANGED <<ollama_mcp, calls, text, cleaned>>

Retrieve(query) ==
    /\ Running
    /\ ret' = Call("retrieve", "", "", query, retrieve(rag_system, disk, query))
    /\ UNCHANGED <<rag_system, ollama_mcp, calls, disk, text, cleaned>>

\* ---- OllamaMCP

McpAddDocument(doc_id, content, net) ==
    /\ LET call == mcp_add_document(ollama_mcp, doc_id, content, net)
       IN  /\ ollama_mcp' = call.self
           /\ ret' = Call("add_document", doc_id, "", <<>>, call.result)
    /\ UNCHANGED <<rag_system, calls, disk, text, cleaned>>

McpAddPdfDocument(pdf_path, output_path, io, net) ==
    /\ LET call == mcp_add_pdf_document(ollama_mcp, disk, pdf_path, output_path, io, net)
       IN  /\ ollama_mcp' = call.self
           /\ disk' = call.disk
           /\ ret' = Call("add_pdf_document", pdf_path, output_path, <<>>, call.result)
    /\ UNCHANGED <<rag_system, calls, text, cleaned>>

McpRetrieve(query, response) ==
    /\ ret' = Call("retrieve", "", "", query, mcp_retrieve(ollama_mcp, query, response))
    /\ UNCHANGED <<rag_system, ollama_mcp, calls, disk, text, cleaned>>

\* ---- process_query: one action per step between two awaits or calls

\* lib.rs 25-35: the call starts with a RAGSystem of its own.
ProcessQueryStart(c, query, pdf_path) ==
    /\ calls[c].pc \in {"idle", "returned"}
    /\ calls' = [calls EXCEPT ![c] =
                    [Idle EXCEPT !.pc = "started", !.query = query, !.pdf_path = pdf_path]]
    /\ UNCHANGED <<rag_system, ollama_mcp, disk, ret, text, cleaned>>

\* lib.rs 38-39
ProcessQueryIngest(c, io) ==
    /\ calls[c].pc = "started"
    /\ LET call == add_pdf_document(calls[c].rag_system, disk, calls[c].pdf_path,
                                     text_output_path, io)
       IN  /\ disk' = call.disk
           /\ calls' = [calls EXCEPT ![c] =
                IF call.result.tag = "Err"
                THEN [@ EXCEPT !.pc = "returned",
                               !.result = Err("Failed to process PDF document")]
                ELSE [@ EXCEPT !.pc = "ingested", !.rag_system = call.self]]
    /\ UNCHANGED <<rag_system, ollama_mcp, ret, text, cleaned>>

\* lib.rs 42
ProcessQueryRetrieve(c) ==
    /\ calls[c].pc = "ingested"
    /\ LET found == retrieve(calls[c].rag_system, disk, calls[c].query)
       IN  calls' = [calls EXCEPT ![c] =
                IF found.tag = "Ok"
                THEN [@ EXCEPT !.pc = "retrieved", !.context = Some(found.val)]
                ELSE [@ EXCEPT !.pc = "returned", !.result = found]]
    /\ UNCHANGED <<rag_system, ollama_mcp, disk, ret, text, cleaned>>

\* lib.rs 45-57: response is what the chat backend answered.
ProcessQueryChat(c, response) ==
    /\ calls[c].pc = "retrieved"
    /\ calls' = [calls EXCEPT ![c] =
            [@ EXCEPT !.pc = "returned",
                      !.sent = Append(@, chat_message(calls[c].context[1], calls[c].query)),
                      !.response = Some(response),
                      !.result = IF response.tag = "Err"
                                 THEN Err("chat backend call failed")
                                 ELSE Ok(response.val)]]
    /\ UNCHANGED <<rag_system, ollama_mcp, disk, ret, text, cleaned>>

\* ---- clean_text

CleanText ==
    /\ Len(cleaned) < 2
    /\ cleaned' = Append(cleaned,
                         clean_text(IF cleaned = <<>> THEN text ELSE cleaned[Len(cleaned)]))
    /\ UNCHANGED <<rag_system, ollama_mcp, calls, disk, ret, text>>

\* ------------------------------------------------------------------------
\* Specifications

\* The session of rag_gemini's main.rs on short documents, with every failure
\* of the host.
SessionPdfs == {"pdfs/rag.pdf", "pdfs/empty.pdf", "pdfs/ete.pdf", "pdfs/missing.pdf"}

SessionQueries ==
    { <<77, 73, 67, 72, 65, 69, 76>>,                      \* "MICHAEL"
      <<122, 101, 98, 114, 97, 32, 102, 105, 110, 105>> }  \* "zebra fini"

Next ==
    \/ \E pdf_path \in SessionPdfs, output_path \in OutputPaths, io \in IoOutcomes :
          AddPdfDocument(pdf_path, output_path, io)
    \/ AddDocument("doc1", Michael)
    \/ \E query \in SessionQueries : Retrieve(query)

Spec == Init /\ [][Next]_vars

\* Retrieval on long documents: a session that ingests one document, on a
\* host that does not fail.
SearchPdfs ==
    {"pdfs/rag.pdf", "pdfs/empty.pdf", "pdfs/blank.pdf", "pdfs/fruit.pdf",
     "pdfs/resume.pdf", "pdfs/dotted.pdf", "pdfs/istanbul.pdf"}

Cherry == <<99, 104, 101, 114, 114, 121>>

SearchQueries ==
    { <<>>,
      <<32, 9>>,
      Michael,
      <<83, 116, 117, 100, 101, 110, 116, 46, 32>> \o Michael, \* "Student. Michael"
      Apple \o <<32>> \o Banana,
      Banana \o <<32, 32>> \o Apple,
      Cherry \o <<194, 160>> \o Banana,
      Cherry,
      <<90>>,                                               \* "Z"
      <<105>>,                                              \* "i"
      <<195, 137>>,                                         \* capital e-acute
      <<120, 32, 121>>,                                     \* "x y"
      <<113, 113, 32, 122>>,                                \* "qq z"
      <<97, 10, 122>> }                                     \* "a\nz"

NextRetrieve ==
    \/ /\ rag_system = RAGSystem_new
       /\ \E pdf_path \in SearchPdfs : AddPdfDocument(pdf_path, text_output_path, IoOk)
    \/ \E query \in SearchQueries : Retrieve(query)

SpecRetrieve == Init /\ [][NextRetrieve]_vars

\* The session of ollama_mcp's main.rs, with every failure of the host and of
\* the backend.
McpPdfs == {"pdfs/rag.pdf", "pdfs/empty.pdf"}

NextOllama ==
    \/ \E pdf_path \in McpPdfs, output_path \in OutputPaths, io \in IoOutcomes,
          net \in NetOutcomes :
          McpAddPdfDocument(pdf_path, output_path, io, net)
    \/ \E net \in NetOutcomes : McpAddDocument("doc1", Michael, net)
    \/ \E response \in {Err("Failed to send query to Ollama API"), Ok(<<>>), Ok(Michael)} :
          McpRetrieve(Michael, response)

SpecOllama == Init /\ [][NextOllama]_vars

\* process_query, one call at a time.
QueryPdfs == {"pdfs/rag.pdf", "pdfs/empty.pdf", "pdfs/missing.pdf", "pdfs/resume.pdf"}
QueryQueries == {Michael, Cherry, <<90>>}
ChatResponses == {Err("transport"), Ok(<<79, 75>>)}

NextQuery ==
    \/ \E query \in QueryQueries, pdf_path \in QueryPdfs :
          ProcessQueryStart("c1", query, pdf_path)
    \/ \E io \in IoOutcomes : ProcessQueryIngest("c1", io)
    \/ ProcessQueryRetrieve("c1")
    \/ \E response \in ChatResponses : ProcessQueryChat("c1", response)

SpecQuery == Init /\ [][NextQuery]_vars

\* clean_text on every text of at most MaxLen characters.
MaxLen == 4

TextChars == { <<97>>, <<32>>, <<10>>, <<194, 160>> }

RECURSIVE TextsOfLen(_)
TextsOfLen(n) ==
    IF n = 0 THEN {<<>>} ELSE {s \o c : s \in TextsOfLen(n - 1), c \in TextChars}

Texts == UNION {TextsOfLen(n) : n \in 0..MaxLen}

InitClean ==
    /\ rag_system = RAGSystem_new
    /\ ollama_mcp = OllamaMCP_new("https://api.ollama.com")
    /\ calls = [c \in Callers |-> Idle]
    /\ disk = [p \in OutputPaths |-> None]
    /\ ret = Call("new", "", "", <<>>, Ok(<<>>))
    /\ text \in Texts
    /\ cleaned = <<>>

NextClean == CleanText

SpecClean == InitClean /\ [][NextClean]_vars

\* Two process_query calls at once, each on PDFs of its own: the steps of a
\* call are its calls and awaits, and the steps of the two calls interleave
\* freely, as when each call runs on a thread or a process of its own.
CallerPdfs ==
    [c \in Callers |->
        IF c = "c1" THEN {"pdfs/rag.pdf"} ELSE {"pdfs/ete.pdf", "pdfs/empty.pdf"}]

Fini == <<102, 105, 110, 105>>

ConcurrentQueries == {Michael, Fini}

NextConcurrent ==
    \/ \E c \in Callers, query \in ConcurrentQueries :
          \E pdf_path \in CallerPdfs[c] : ProcessQueryStart(c, query, pdf_path)
    \/ \E c \in Callers, io \in IoOutcomes : ProcessQueryIngest(c, io)
    \/ \E c \in Callers : ProcessQueryRetrieve(c)
    \/ \E c \in Callers : ProcessQueryChat(c, Ok(<<79, 75>>))

SpecConcurrent == Init /\ [][NextConcurrent]_vars
\* ------------------------------------------------------------------------
\* Properties

\* The content retrieve searches: what read_to_string yields for the
\* session's processed text, None when there is no path or no readable file.
ProcessedText ==
    IF rag_system.processed_text_path = None THEN None
    ELSE LET read == read_to_string(disk, rag_system.processed_text_path[1])
         IN  IF read.tag = "Err" THEN None ELSE Some(read.val)

\* The keyword tokens of the last query.
Keywords == split_whitespace(to_lowercase(ret.query))

Occurs(hay, needle) ==
    \E p \in 0..(Len(hay) - Len(needle)) : SubSeq(hay, p + 1, p + Len(needle)) = needle

Positions(hay, needle) ==
    {p \in 0..(Len(hay) - Len(needle)) : SubSeq(hay, p + 1, p + Len(needle)) = needle}

MinOf(S) == CHOOSE x \in S : \A y \in S : x <= y

\* The keywords of the last query that occur in lower, by their index.
Hits(lower) == {i \in 1..Len(Keywords) : Occurs(lower, Keywords[i])}

Searched == ret.op = "retrieve" /\ ProcessedText # None

\* C1: a retrieve in a session whose document store was never populated
\* returns the missing-context error, whatever the query, and never a string.
C1_MissingContext ==
    (ret.op = "retrieve" /\ IsEmptyMap(rag_system.document_store))
        => ret.result = Err("No processed text file available")

\* C1 happens: a retrieve in a session whose only ingestions failed, one of
\* them after it had created the output file.
C1_Witness ==
    /\ ret.op = "retrieve"
    /\ IsEmptyMap(rag_system.document_store)
    /\ disk[text_output_path] # None
    /\ ret.result.tag = "Err"

\* C2: every keyword of the query that occurs in the lower-cased content is
\* contained, case-insensitively, in a non-empty result of retrieve.
C2_TokenFound ==
    Searched =>
        \A i \in 1..Len(Keywords) :
            Occurs(to_lowercase(ProcessedText[1]), Keywords[i])
                => /\ ret.result.tag = "Ok"
                   /\ ret.result.val # <<>>
                   /\ Occurs(to_lowercase(ret.result.val), Keywords[i])

\* C3: on a processed text that was read, a query none of whose keywords
\* occurs in it (a query without keywords included) returns Ok(""), not an
\* error.
C3_NoMatchIsEmpty ==
    (Searched /\ Hits(to_lowercase(ProcessedText[1])) = {})
        => ret.result = Ok(<<>>)

\* C3 happens: a query with keywords, none of them in a non-empty content.
C3_Witness ==
    /\ Searched
    /\ ProcessedText[1] # <<>>
    /\ Keywords # <<>>
    /\ Hits(to_lowercase(ProcessedText[1])) = {}
    /\ ret.result = Ok(<<>>)

\* C4: when the first keyword that occurs matches at p with length k in a
\* content of n bytes, start = max(0, p - 300) and end = min(n, p + k + 300)
\* satisfy start <= end <= n and retrieve returns Ok(content[start..end]).
C4_WindowInBounds ==
    (Searched /\ Hits(to_lowercase(ProcessedText[1])) # {}) =>
        LET content == ProcessedText[1]
            lower == to_lowercase(content)
            keyword == Keywords[MinOf(Hits(lower))]
            p == MinOf(Positions(lower, keyword))
            start == IF p - Window > 0 THEN p - Window ELSE 0
            end == Min(Len(content), p + Len(keyword) + Window)
        IN  /\ start <= end
            /\ end <= Len(content)
            /\ ret.result = Ok(SubSeq(content, start + 1, end))

\* C5: what retrieve returns is decided by the first keyword, in query order,
\* that occurs in the content and by the lowest offset at which it occurs:
\* the slice of the window around that match, whatever the later keywords
\* and the later occurrences are.
C5_FirstKeywordWins ==
    (Searched /\ Hits(to_lowercase(ProcessedText[1])) # {}) =>
        LET content == ProcessedText[1]
            lower == to_lowercase(content)
            keyword == Keywords[MinOf(Hits(lower))]
            p == MinOf(Positions(lower, keyword))
        IN  ret.result = Slice(content, saturating_sub(p, Window),
                               Min(p + Len(keyword) + Window, Len(content)))

\* C5 happens: two keywords occur, the second one earlier in the content and
\* outside the window that retrieve returns around the first one.
C5_Witness ==
    /\ Searched
    /\ Len(Keywords) = 2
    /\ LET lower == to_lowercase(ProcessedText[1])
       IN  /\ Hits(lower) = {1, 2}
           /\ MinOf(Positions(lower, Keywords[2])) < MinOf(Positions(lower, Keywords[1]))
           /\ Cardinality(Positions(lower, Keywords[2])) > 1
    /\ ret.result.tag = "Ok"
    /\ ~Occurs(to_lowercase(ret.result.val), Keywords[2])

\* C6: an ingestion whose extraction yields "" fails only if the output file
\* cannot be created; when it succeeds the session is populated, with the
\* path of an empty file and a document of empty content, and a retrieve on
\* a session whose processed text is empty returns Ok(""), not an error.
C6_EmptyExtraction ==
    /\ (ret.op = "add_pdf_document" /\ extract_text(ret.pdf_path) = Ok(<<>>)) =>
          IF ret.result.tag = "Ok"
          THEN /\ rag_system.processed_text_path = Some(ret.output_path)
               /\ rag_system.document_store[ret.pdf_path] = Some(<<>>)
               /\ disk[ret.output_path] = Some(<<>>)
          ELSE ret.result = Err("Failed to create output file")
    /\ (ret.op = "retrieve" /\ ProcessedText = Some(<<>>)) => ret.result = Ok(<<>>)

\* C6 happens: a retrieve whose query has keywords, on a session that
\* ingested the PDF of empty text and holds the path of an empty file.
C6_Witness ==
    /\ ret.op = "retrieve"
    /\ rag_system.document_store["pdfs/empty.pdf"] = Some(<<>>)
    /\ ProcessedText = Some(<<>>)
    /\ Keywords # <<>>
    /\ ret.result = Ok(<<>>)

\* C7: an add_pdf_document that returns an error leaves the document store
\* and the processed-text path of its session as they were.
C7_FailedIngestAborts ==
    [][(ret'.op = "add_pdf_document" /\ ret'.result.tag = "Err")
          => /\ rag_system' = rag_system
             /\ ollama_mcp'.document_store = ollama_mcp.document_store
             /\ ollama_mcp'.processed_text_path = ollama_mcp.processed_text_path]_vars

\* The characters of a string, each as its bytes.
RECURSIVE CharsFrom(_, _)
CharsFrom(s, i) ==
    IF i > Len(s) THEN <<>> ELSE <<CharAt(s, i)>> \o CharsFrom(s, i + CharWidth(s[i]))

\* The words joined by single spaces.
RECURSIVE JoinFrom(_, _)
JoinFrom(words, i) ==
    IF i > Len(words) THEN <<>>
    ELSE IF i = Len(words) THEN words[i]
    ELSE words[i] \o <<32>> \o JoinFrom(words, i + 1)

\* C8: clean_text(s) is the whitespace-separated words of s joined by single
\* spaces: it has no two adjacent whitespace characters, no leading and no
\* trailing whitespace, and cleaning it again changes nothing.
C8_Normalize ==
    Len(cleaned) >= 1 =>
        LET chars == CharsFrom(cleaned[1], 1)
        IN  /\ cleaned[1] = JoinFrom(split_whitespace(text), 1)
            /\ \A i \in 1..(Len(chars) - 1) :
                  ~(IsWhitespace(chars[i]) /\ IsWhitespace(chars[i + 1]))
            /\ chars # <<>> =>
                  (~IsWhitespace(chars[1]) /\ ~IsWhitespace(chars[Len(chars)]))
            /\ Len(cleaned) = 2 => cleaned[2] = cleaned[1]

\* C8 happens: "a", no-break space, newline, "a" is cleaned to "a a", and
\* cleaned again.
C8_Witness ==
    /\ text = <<97, 194, 160, 10, 97>>
    /\ cleaned = << <<97, 32, 97>>, <<97, 32, 97>> >>

\* C9: a process_query call sends nothing before its retrieval succeeded and
\* exactly one message after it: the query when the context is empty, else
\* "Context: {context}\n\nQuestion: {query}".  It returns the text of the
\* chat backend's answer, and an error without any text when the backend
\* call failed.
C9_OneChatMessage ==
    LET call == calls["c1"]
    IN  IF call.pc = "returned" /\ call.context # None
        THEN /\ call.sent =
                   << IF call.context[1] = <<>> THEN call.query
                      ELSE ContextPrefix \o call.context[1] \o QuestionPrefix
                           \o call.query >>
             /\ call.response # None
             /\ call.response[1].tag = "Err" =>
                   (call.result.tag = "Err" /\ call.result.val = <<>>)
             /\ call.response[1].tag = "Ok" => call.result = Ok(call.response[1].val)
        ELSE call.sent = <<>> /\ call.response = None

\* C9 happens: calls that retrieved an empty context have sent the query
\* alone and got the backend's failure.
C9_Witness ==
    LET call == calls["c1"]
    IN  /\ call.pc = "returned"
        /\ call.context = Some(<<>>)
        /\ call.query # <<>>
        /\ call.sent = <<call.query>>
        /\ call.result.tag = "Err"

\* C10, in every state: a successful ingestion leaves the session's path at
\* its output path and the file there reads back as the cleaned text it
\* wrote; what a retrieve returns does not depend on the other output files.
C10_RoundTrip ==
    /\ (ret.op = "add_pdf_document" /\ ret.result.tag = "Ok") =>
          /\ rag_system.processed_text_path = Some(ret.output_path)
          /\ read_to_string(disk, ret.output_path)
                = Ok(clean_text(extract_text(ret.pdf_path).val))
    /\ (ret.op = "retrieve" /\ rag_system.processed_text_path # None) =>
          \A other \in OutputPaths \ {rag_system.processed_text_path[1]} :
              ret.result = retrieve(rag_system, [disk EXCEPT ![other] = None], ret.query)

\* C10, in every step: the session's path changes only to the output path of
\* an ingestion that returns success.
C10_PathStep ==
    rag_system'.processed_text_path # rag_system.processed_text_path =>
        /\ ret'.op = "add_pdf_document"
        /\ ret'.result.tag = "Ok"
        /\ rag_system'.processed_text_path = Some(ret'.output_path)

OwnContext(call) ==
    retrieve(call.rag_system,
             [disk EXCEPT ![text_output_path] =
                 Some(clean_text(extract_text(call.pdf_path).val))],
             call.query)

\* C11: of two process_query calls that run at once on different PDFs, each
\* retrieves the context that the text of its own PDF yields for its query,
\* and sends the chat backend the prompt made of that context, whatever the
\* order of the two calls' ingest and retrieve steps.
C11_Isolated ==
    \A c \in Callers :
        LET call == calls[c]
        IN  call.context # None =>
               /\ call.context = Some(OwnContext(call).val)
               /\ call.sent # <<>> =>
                     call.sent = <<chat_message(OwnContext(call).val, call.query)>>
====
